---- MODULE Spec2Model ----
(***************************************************************************)
(* Model of convert_dayone_to_obsidian.py: the DayOne JSON export to       *)
(* Obsidian Markdown converter.                                            *)
(*                                                                         *)
(* Text is modelled as sequences of one-character strings; a multi-line    *)
(* text is a sequence of lines.  ISO timestamps are modelled as sequences  *)
(* of naturals <<day, hour>> (the fixed-width fields of one month, so that *)
(* Python's string comparison is the lexicographic order on them), with a  *)
(* trailing ZChar for the "Z" suffix of the export and QuoteChar for the   *)
(* double quotes the YAML writer puts around them.                         *)
(***************************************************************************)
EXTENDS Integers, Sequences, FiniteSets, TLC

(***************************************************************************)
(* Bounds of the model.                                                    *)
(***************************************************************************)
MaxEntries == 2
MaxLog == 3

(***************************************************************************)
(* Characters and small string helpers (Python str methods).               *)
(***************************************************************************)
None == "None"

Whitespace == {" ", "\t"}

\* the character class of re.sub(r'[<>:"/\\|?*]', '', text)
SpecialChars == {"<", ">", ":", "\"", "/", "\\", "|", "?", "*"}

Untitled == <<"U", "n", "t", "i", "t", "l", "e", "d">>

MaxFilenameLength == 50
WordBreakMin == 20

RECURSIVE LStrip(_)
LStrip(s) ==
    IF s = <<>> THEN <<>>
    ELSE IF Head(s) \in Whitespace THEN LStrip(Tail(s)) ELSE s

RECURSIVE RStrip(_)
RStrip(s) ==
    IF s = <<>> THEN <<>>
    ELSE IF s[Len(s)] \in Whitespace THEN RStrip(SubSeq(s, 1, Len(s) - 1)) ELSE s

\* str.strip()
Strip(s) == RStrip(LStrip(s))

\* re.sub(r'[<>:"/\\|?*]', '', text)
RemoveSpecial(s) == SelectSeq(s, LAMBDA c : c \notin SpecialChars)

\* re.sub(r'\s+', ' ', sanitized)
RECURSIVE CollapseSpaces(_)
CollapseSpaces(s) ==
    IF s = <<>> THEN <<>>
    ELSE IF Head(s) \in Whitespace
         THEN <<" ">> \o CollapseSpaces(LStrip(s))
         ELSE <<Head(s)>> \o CollapseSpaces(Tail(s))

\* str.rfind(' '): the 0-based index of the last space, -1 when there is none
RFindSpace(s) ==
    LET idx == {i \in 1..Len(s) : s[i] = " "}
    IN  IF idx = {} THEN -1 ELSE (CHOOSE i \in idx : \A j \in idx : j <= i) - 1

\* variant of sanitize_filename that breaks at a space from index 20 on (>=)
sanitize_filename_ge(text, max_length) ==
    IF text = <<>> THEN Untitled
    ELSE
      LET sanitized == Strip(CollapseSpaces(RemoveSpecial(text)))
      IN  IF sanitized = <<>> THEN Untitled
          ELSE IF Len(sanitized) > max_length
               THEN LET truncated == SubSeq(sanitized, 1, max_length)
                        last_space == RFindSpace(truncated)
                        cut == IF last_space >= WordBreakMin
                               THEN SubSeq(truncated, 1, last_space)
                               ELSE truncated
                        stripped == Strip(cut)
                    IN  IF stripped = <<>> THEN Untitled ELSE stripped
               ELSE sanitized

\* lines 98-130
sanitize_filename(text, max_length) ==
    IF text = <<>> THEN Untitled
    ELSE
      LET sanitized == Strip(CollapseSpaces(RemoveSpecial(text)))
      IN  IF sanitized = <<>> THEN Untitled
          ELSE IF Len(sanitized) > max_length
               THEN LET truncated == SubSeq(sanitized, 1, max_length)
                        last_space == RFindSpace(truncated)
                        cut == IF last_space > WordBreakMin
                               THEN SubSeq(truncated, 1, last_space)
                               ELSE truncated
                        stripped == Strip(cut)
                    IN  IF stripped = <<>> THEN Untitled ELSE stripped
               ELSE sanitized

\* re.match(r'^!\[.*\]\(.*\)$', line): "![", then somewhere "](", and a final ")"
IsImageRef(s) ==
    /\ Len(s) >= 5
    /\ s[1] = "!"
    /\ s[2] = "["
    /\ s[Len(s)] = ")"
    /\ \E i \in 3..(Len(s) - 2) : s[i] = "]" /\ s[i + 1] = "("

\* re.sub(r'^#+\s*', '', first_line)
RECURSIVE StripHashes(_)
StripHashes(s) ==
    IF s # <<>> /\ Head(s) = "#" THEN StripHashes(Tail(s)) ELSE LStrip(s)

IsBlank(line) == Strip(line) = <<>>

\* text.strip().split('\n'): the lines without the leading and trailing blank ones
RECURSIVE DropLeadingBlank(_)
DropLeadingBlank(lines) ==
    IF lines = <<>> THEN <<>>
    ELSE IF IsBlank(Head(lines)) THEN DropLeadingBlank(Tail(lines)) ELSE lines

RECURSIVE DropTrailingBlank(_)
DropTrailingBlank(lines) ==
    IF lines = <<>> THEN <<>>
    ELSE IF IsBlank(lines[Len(lines)])
         THEN DropTrailingBlank(SubSeq(lines, 1, Len(lines) - 1))
         ELSE lines

StrippedLines(text) == DropTrailingBlank(DropLeadingBlank(text))

\* the fallback loop of extract_title: first non-empty line that is no image
RECURSIVE FirstTitleLine(_)
FirstTitleLine(lines) ==
    IF lines = <<>> THEN Untitled
    ELSE LET line == Strip(Head(lines))
         IN  IF line # <<>> /\ ~IsImageRef(line)
                /\ ~(Len(line) >= 2 /\ line[1] = "!" /\ line[2] = "[")
             THEN sanitize_filename(line, MaxFilenameLength)
             ELSE FirstTitleLine(Tail(lines))

\* a text is a sequence of lines; the empty text is <<>>
extract_title(text) ==
    IF text = <<>> THEN Untitled
    ELSE
      LET lines == StrippedLines(text)
          first_line == IF lines = <<>> THEN <<>> ELSE Strip(lines[1])
      IN  IF first_line # <<>> /\ Head(first_line) = "#"
             /\ ~IsImageRef(Strip(StripHashes(first_line)))
          THEN sanitize_filename(StripHashes(first_line), MaxFilenameLength)
          ELSE FirstTitleLine(lines)

(***************************************************************************)
(* Optional values (a key of the JSON object that may be missing).         *)
(***************************************************************************)
Absent == <<>>
Some(v) == <<v>>
Has(o) == o # <<>>
Val(o) == o[1]

Min(a, b) == IF a <= b THEN a ELSE b

(***************************************************************************)
(* Time.  An ISO timestamp of the export, "2026-03-DDTHH:00:00Z", is       *)
(* <<DD, HH, ZChar>>; the local form written to the frontmatter,           *)
(* "2026-03-DDTHH:00:00", is <<DD, HH>>.  All instants lie in March of one *)
(* year, so the November end of the DST window is never reached.           *)
(***************************************************************************)
ZChar == 90
QuoteChar == 34
HoursPerDay == 24
\* datetime(year, 3, 1).weekday() of the modelled year (Monday = 0)
MarchFirstWeekday == 6
DefaultOffset == 6

\* Python's <= on str: lexicographic, a proper prefix is smaller
RECURSIVE StrLeq(_, _)
StrLeq(a, b) ==
    IF a = <<>> THEN TRUE
    ELSE IF b = <<>> THEN FALSE
    ELSE IF Head(a) < Head(b) THEN TRUE
    ELSE IF Head(a) > Head(b) THEN FALSE
    ELSE StrLeq(Tail(a), Tail(b))

TIMEZONE_OFFSETS_STD ==
    [tz \in {"America/Chicago", "America/New_York", "America/Denver",
             "America/Los_Angeles", "America/Phoenix", "UTC"} |->
        CASE tz = "America/Chicago" -> -6
          [] tz = "America/New_York" -> -5
          [] tz = "America/Denver" -> -7
          [] tz = "America/Los_Angeles" -> -8
          [] tz = "America/Phoenix" -> -7
          [] tz = "UTC" -> 0]

TIMEZONE_OFFSETS_DST ==
    [tz \in {"America/Chicago", "America/New_York", "America/Denver",
             "America/Los_Angeles", "America/Phoenix", "UTC"} |->
        CASE tz = "America/Chicago" -> -5
          [] tz = "America/New_York" -> -4
          [] tz = "America/Denver" -> -6
          [] tz = "America/Los_Angeles" -> -7
          [] tz = "America/Phoenix" -> -7
          [] tz = "UTC" -> 0]

\* dt is the parsed instant [day, hour] (UTC); dst_start is the second Sunday
\* of March at 00:00, dst_end lies in November
is_dst(dt) ==
    LET days_until_sunday == (6 - MarchFirstWeekday) % 7
        dst_start_day == 1 + days_until_sunday + 7
    IN  dst_start_day <= dt.day

get_timezone_offset(timezone_str, dt) ==
    IF is_dst(dt)
    THEN IF timezone_str \in DOMAIN TIMEZONE_OFFSETS_DST
         THEN TIMEZONE_OFFSETS_DST[timezone_str] ELSE 0 - DefaultOffset
    ELSE IF timezone_str \in DOMAIN TIMEZONE_OFFSETS_STD
         THEN TIMEZONE_OFFSETS_STD[timezone_str] ELSE 0 - DefaultOffset

\* datetime.fromisoformat(iso.replace('Z', '+00:00')) succeeds on <<d, h, ZChar>>
IsIsoDate(s) ==
    /\ Len(s) = 3
    /\ s[1] \in 1..31
    /\ s[2] \in 0..(HoursPerDay - 1)
    /\ s[3] = ZChar

\* the naive local datetime [day, hour], Absent (Python's None) when the string
\* is empty or does not parse
convert_to_local_time(iso_date_str, timezone_str) ==
    IF iso_date_str = <<>> \/ ~IsIsoDate(iso_date_str) THEN Absent
    ELSE LET dt == [day |-> iso_date_str[1], hour |-> iso_date_str[2]]
             total == dt.day * HoursPerDay + dt.hour
                      + get_timezone_offset(timezone_str, dt)
         IN  Some([day |-> total \div HoursPerDay, hour |-> total % HoursPerDay])

\* dt.strftime('%Y-%m-%dT%H:%M:%S')
format_local_datetime(dt) == <<dt.day, dt.hour>>

Digit == [n \in 0..9 |-> CASE n = 0 -> "0" [] n = 1 -> "1" [] n = 2 -> "2"
                           [] n = 3 -> "3" [] n = 4 -> "4" [] n = 5 -> "5"
                           [] n = 6 -> "6" [] n = 7 -> "7" [] n = 8 -> "8"
                           [] n = 9 -> "9"]

\* dt.strftime('%Y-%m-%d')
DateStr(dt) ==
    <<"2", "0", "2", "6", "-", "0", "3", "-",
      Digit[dt.day \div 10], Digit[dt.day % 10]>>

UnknownDate == <<"U", "n", "k", "n", "o", "w", "n", "-", "D", "a", "t", "e">>
UNKNOWN == <<"U", "N", "K", "N", "O", "W", "N">>
UuidPrefixLen == 8

\* dict.get(key, default)
Get(o, default) == IF Has(o) THEN Val(o) ELSE default

TzOf(entry) == IF entry.timeZone = None THEN "America/Chicago" ELSE entry.timeZone

\* uuid[:8]
Prefix(uuid) == SubSeq(uuid, 1, Min(UuidPrefixLen, Len(uuid)))

\* f"{date_str} {title} ({uuid8}).md"
generate_filename(entry) ==
    LET dt == convert_to_local_time(Get(entry.creationDate, <<>>), TzOf(entry))
        date_str == IF Has(dt) THEN DateStr(Val(dt)) ELSE UnknownDate
        title == extract_title(entry.text)
        uuid8 == Prefix(Get(entry.uuid, UNKNOWN))
    IN  date_str \o <<" ">> \o title \o <<" ", "(">> \o uuid8 \o <<")", ".", "m", "d">>


(***************************************************************************)
(* Content of an output file: the serialized frontmatter and the body.     *)
(* Only the keys whose source fields the modelled entries carry are kept   *)
(* (uuid, date, modified, timezone).  A file that open() created and that  *)
(* was never written is EmptyContent.                                      *)
(***************************************************************************)
YamlSpecial == {":", "#", "\"", "'", "\n", "[", "]", "{", "}"}

RECURSIVE EscapeQuotes(_)
EscapeQuotes(s) ==
    IF s = <<>> THEN <<>>
    ELSE (IF Head(s) = "\"" THEN <<"\\", "\"">> ELSE <<Head(s)>>)
         \o EscapeQuotes(Tail(s))

\* a str value of frontmatter_to_yaml
YamlStr(s) ==
    IF \E i \in 1..Len(s) : s[i] \in YamlSpecial
    THEN <<"\"">> \o EscapeQuotes(s) \o <<"\"">>
    ELSE s

\* a formatted datetime always holds ':' and is therefore written in quotes
YamlTime(t) == <<QuoteChar>> \o t \o <<QuoteChar>>

NoFrontmatter == [uuid |-> Absent, date |-> Absent, modified |-> Absent,
                  timezone |-> None]

EmptyContent == [fm |-> NoFrontmatter, body |-> <<>>]

LocalOf(iso, tz) ==
    IF Has(iso) /\ Has(convert_to_local_time(Val(iso), tz))
    THEN Some(format_local_datetime(Val(convert_to_local_time(Val(iso), tz))))
    ELSE Absent

\* the dict of build_frontmatter (values not yet serialized)
build_frontmatter(entry) ==
    [uuid |-> entry.uuid,
     date |-> LocalOf(entry.creationDate, TzOf(entry)),
     modified |-> LocalOf(entry.modifiedDate, TzOf(entry)),
     timezone |-> entry.timeZone]

frontmatter_to_yaml(fm) ==
    [uuid |-> IF Has(fm.uuid) THEN Some(YamlStr(Val(fm.uuid))) ELSE Absent,
     date |-> IF Has(fm.date) THEN Some(YamlTime(Val(fm.date))) ELSE Absent,
     modified |-> IF Has(fm.modified) THEN Some(YamlTime(Val(fm.modified))) ELSE Absent,
     timezone |-> fm.timezone]

\* str.strip('"') on a timestamp string
RECURSIVE StripQuotes(_)
StripQuotes(s) ==
    IF s = <<>> THEN <<>>
    ELSE IF Head(s) = QuoteChar THEN StripQuotes(Tail(s))
    ELSE IF s[Len(s)] = QuoteChar THEN StripQuotes(SubSeq(s, 1, Len(s) - 1))
    ELSE s

\* re.search(r'^modified:\s*(.+)$', content): the value of the modified line,
\* None when the file has no such line (the modelled bodies hold none)
extract_modified_date_from_file(content) ==
    IF Has(content.fm.modified) THEN StripQuotes(Val(content.fm.modified)) ELSE None

(***************************************************************************)
(* Photos.  A file name "<stem>.<ext>" is the record [stem, ext].          *)
(***************************************************************************)
Lower(t) == CASE t = "JPG" -> "jpg" [] t = "JPEG" -> "jpeg" [] t = "PNG" -> "png"
              [] OTHER -> t

normalize_extension(ext) ==
    LET e == IF ext = "" \/ ext = None THEN "jpeg" ELSE Lower(ext)
    IN  IF e = "jpg" THEN "jpeg" ELSE e

PhotoType(photo) == IF photo.type = None THEN "jpeg" ELSE photo.type

Scheme == "dayone-moment://"
HexChars == {"A", "B", "C", "D", "E", "F", "a", "b", "c", "d", "e", "f",
             "0", "1", "2", "3", "4", "5", "6", "7", "8", "9"}

\* last index of the run of hex characters starting at p (p - 1 when empty)
RECURSIVE HexRunEnd(_, _)
HexRunEnd(s, p) ==
    IF p <= Len(s) /\ s[p] \in HexChars THEN HexRunEnd(s, p + 1) ELSE p - 1

\* the "](" positions at which r'!\[.*?\]\(dayone-moment://([A-Fa-f0-9]*)\)'
\* started at i can close
LinkCloses(s, i) ==
    {j \in (i + 2)..(Len(s) - 3) :
        /\ s[j] = "]" /\ s[j + 1] = "(" /\ s[j + 2] = Scheme
        /\ HexRunEnd(s, j + 3) + 1 <= Len(s)
        /\ s[HexRunEnd(s, j + 3) + 1] = ")"}

\* ext_map.get(identifier, 'jpeg'): the last photo with the identifier wins
RECURSIVE ExtOf(_, _)
ExtOf(photos_info, identifier) ==
    IF photos_info = <<>> THEN "jpeg"
    ELSE LET photo == photos_info[Len(photos_info)]
         IN  IF photo.identifier = identifier
             THEN normalize_extension(PhotoType(photo))
             ELSE ExtOf(SubSeq(photos_info, 1, Len(photos_info) - 1), identifier)

RECURSIVE ConvertLine(_, _, _)
ConvertLine(s, i, photos_info) ==
    IF i > Len(s) THEN <<>>
    ELSE IF s[i] = "!" /\ i + 1 <= Len(s) /\ s[i + 1] = "[" /\ LinkCloses(s, i) # {}
    THEN LET j == CHOOSE x \in LinkCloses(s, i) : \A y \in LinkCloses(s, i) : x <= y
             k == HexRunEnd(s, j + 3)
             identifier == SubSeq(s, j + 3, k)
             link == IF identifier = <<>> THEN <<>>
                     ELSE <<"!", "[", "[", "photos/">> \o identifier
                          \o <<".", ExtOf(photos_info, identifier), "]", "]">>
         IN  link \o ConvertLine(s, k + 2, photos_info)
    ELSE <<s[i]>> \o ConvertLine(s, i + 1, photos_info)

convert_image_links(text, photos_info) ==
    [n \in 1..Len(text) |-> ConvertLine(text[n], 1, photos_info)]

\* full_content = f"{yaml_fm}\n\n{content}"
FullContent(entry) ==
    [fm |-> frontmatter_to_yaml(build_frontmatter(entry)),
     body |-> convert_image_links(entry.text, entry.photos)]


\* the source pool: the photos directory next to the export
SourcePhotos ==
    [f \in {[stem |-> <<"h", "1">>, ext |-> "jpg"],
            [stem |-> <<"h", "2">>, ext |-> "png"],
            [stem |-> <<"A", "B">>, ext |-> "jpeg"]} |->
        CASE f.stem = <<"h", "1">> -> "blob1"
          [] f.stem = <<"h", "2">> -> "blob2"
          [] OTHER -> "blob3"]

\* the first name of the list that exists in the source directory
RECURSIVE FirstExisting(_)
FirstExisting(names) ==
    IF names = <<>> THEN Absent
    ELSE IF Head(names) \in DOMAIN SourcePhotos THEN Some(Head(names))
    ELSE FirstExisting(Tail(names))

SourceCandidates(photo) ==
    LET md5 == photo.md5
        identifier == photo.identifier
        photo_type_raw == Lower(PhotoType(photo))
        photo_type == normalize_extension(photo_type_raw)
    IN  << [stem |-> md5, ext |-> photo_type_raw], [stem |-> md5, ext |-> photo_type],
           [stem |-> identifier, ext |-> photo_type_raw],
           [stem |-> identifier, ext |-> photo_type],
           [stem |-> md5, ext |-> "jpeg"], [stem |-> identifier, ext |-> "jpeg"],
           [stem |-> md5, ext |-> "jpg"], [stem |-> identifier, ext |-> "jpg"],
           [stem |-> md5, ext |-> "jpg"], [stem |-> md5, ext |-> "jpeg"],
           [stem |-> md5, ext |-> "png"], [stem |-> md5, ext |-> "gif"],
           [stem |-> md5, ext |-> "heic"] >>

DestFile(photo) ==
    [stem |-> photo.identifier,
     ext |-> normalize_extension(Lower(PhotoType(photo)))]

RECURSIVE copy_photos_overwrite(_, _, _)
\* variant of copy_photos without the dest_file.exists() test
copy_photos_overwrite(photo_list, output_photos, dry_run) ==
    IF photo_list = <<>> THEN output_photos
    ELSE
      LET photo == Head(photo_list)
          source_file == FirstExisting(SourceCandidates(photo))
          dest_file == DestFile(photo)
          copied == IF Has(source_file) /\ ~dry_run
                    THEN (dest_file :> SourcePhotos[Val(source_file)]) @@ output_photos
                    ELSE output_photos
      IN  copy_photos_overwrite(Tail(photo_list), copied, dry_run)

\* the photos directory after copy_photos(entry, ...)
RECURSIVE copy_photos(_, _, _)
copy_photos(photo_list, output_photos, dry_run) ==
    IF photo_list = <<>> THEN output_photos
    ELSE
      LET photo == Head(photo_list)
          source_file == FirstExisting(SourceCandidates(photo))
          dest_file == DestFile(photo)
          copied == IF Has(source_file) /\ dest_file \notin DOMAIN output_photos
                       /\ ~dry_run
                    THEN (dest_file :> SourcePhotos[Val(source_file)]) @@ output_photos
                    ELSE output_photos
      IN  copy_photos(Tail(photo_list), copied, dry_run)

(***************************************************************************)
(* The journal-entries directory is a function from file names to          *)
(* contents.                                                               *)
(***************************************************************************)
NoFiles == [n \in {} |-> EmptyContent]

Remove(fs, name) == [n \in DOMAIN fs \ {name} |-> fs[n]]

EndsWith(s, suffix) ==
    /\ Len(s) >= Len(suffix)
    /\ SubSeq(s, Len(s) - Len(suffix) + 1, Len(s)) = suffix

\* the files entries_dir.glob(f"*({uuid8}).md") yields; find_existing_file
\* returns the first one in directory order, None when there is none
find_existing_file(fs, dir_exists, uuid8) ==
    IF ~dir_exists THEN {}
    ELSE {n \in DOMAIN fs : EndsWith(n, <<"(">> \o uuid8 \o <<")", ".", "m", "d">>)}

ExistingChoices(fs, dir_exists, entry) ==
    LET matches == find_existing_file(fs, dir_exists, Prefix(Get(entry.uuid, <<>>)))
    IN  IF matches = {} THEN {Absent} ELSE {Some(n) : n \in matches}


(***************************************************************************)
(* The entries an export can hold (the inputs of the model).  An export is *)
(* drawn from one of several families of entries.                          *)
(***************************************************************************)
UuidA1 == <<"A", "A", "A", "A", "A", "A", "A", "A", "1">>
UuidA2 == <<"A", "A", "A", "A", "A", "A", "A", "A", "2">>
UuidShort == <<"B", "2">>

\* "# Alpha" / "body"
TextAlpha == << <<"#", " ", "A", "l", "p", "h", "a">>, <<"b", "o", "d", "y">> >>
\* "![](dayone-moment://AB)" / "Beta: x"
TextBeta == << <<"!", "[", "]", "(", Scheme, "A", "B", ")">>,
               <<"B", "e", "t", "a", ":", " ", "x">> >>

Created == <<7, 3, ZChar>>
ModifiedOld == <<7, 3, ZChar>>
ModifiedNew == <<8, 12, ZChar>>

PhotoJpg == [identifier |-> <<"A", "B">>, md5 |-> <<"h", "1">>, type |-> "JPG"]
PhotoById == [identifier |-> <<"A", "B">>, md5 |-> <<"h", "7">>, type |-> "jpeg"]
PhotoSweep == [identifier |-> <<"C", "D">>, md5 |-> <<"h", "2">>, type |-> "gif"]
PhotoLost == [identifier |-> <<"E", "F">>, md5 |-> <<"h", "9">>, type |-> None]

Entry(uuid, text, modified, tz, malformed, photo_list) ==
    [uuid |-> uuid, text |-> text, creationDate |-> Some(Created),
     modifiedDate |-> modified, timeZone |-> tz, malformed |-> malformed,
     photos |-> photo_list]

Modifieds == {Absent, Some(ModifiedOld), Some(ModifiedNew)}

\* one entry edited between exports: title, body and modification time change
FamilyEdits ==
    {Entry(Some(UuidA1), TextAlpha, m, None, "none", <<>>) : m \in Modifieds}
    \cup {Entry(Some(UuidA1), TextBeta, Some(ModifiedNew), None, "none", <<>>),
          Entry(Some(UuidA1), <<>>, Some(ModifiedOld), None, "none", <<>>),
          Entry(Some(UuidShort), TextAlpha, Some(ModifiedNew), "UTC", "none", <<>>)}

\* identifiers: two that share their first 8 characters, none
FamilyIds ==
    {Entry(u, TextAlpha, Some(ModifiedOld), None, "none", <<>>) :
        u \in {Some(UuidA1), Some(UuidA2), Absent}}
    \cup {Entry(u, TextBeta, Some(ModifiedNew), None, "none", <<>>) :
            u \in {Some(UuidA2), Absent}}

\* entries whose data make the code raise, next to well-formed ones
FamilyFaults ==
    {Entry(Some(UuidA1), TextAlpha, Some(ModifiedNew), None, f, <<>>) :
        f \in {"text", "location", "body"}}
    \cup {Entry(Some(UuidA1), TextBeta, Some(ModifiedOld), None, "none", <<>>),
          Entry(Some(UuidA2), TextAlpha, Some(ModifiedOld), None, "none", <<>>),
          Entry(Some(UuidA2), TextBeta, Some(ModifiedNew), None, "location", <<>>),
          Entry(Some(UuidShort), TextAlpha, Some(ModifiedNew), None, "none", <<>>)}

\* entries with attached photos
FamilyPhotos ==
    {Entry(Some(UuidShort), TextBeta, Some(ModifiedNew), None, "none", ps) :
        ps \in {<<PhotoJpg>>, <<PhotoById, PhotoLost>>, <<PhotoSweep, PhotoJpg>>}}
    \cup {Entry(Some(UuidA1), TextBeta, m, None, "none", <<PhotoById>>) :
            m \in {Some(ModifiedOld), Some(ModifiedNew)}}
    \cup {Entry(Some(UuidA1), TextAlpha, Some(ModifiedNew), None, "body", <<PhotoJpg>>)}

Families == {FamilyEdits, FamilyIds, FamilyFaults, FamilyPhotos}

AllEntries == UNION Families

\* generate_filename and the written content of each entry, evaluated once
FilenameOf == [e \in AllEntries |-> generate_filename(e)]
ContentOf == [e \in AllEntries |-> FullContent(e)]

(***************************************************************************)
(* One iteration of the loop of process_entries, as a function of the      *)
(* entry, the file find_existing_file returned, the directories, the       *)
(* counters and the arguments.  entry.malformed names the datum of the     *)
(* entry that makes the code raise:                                        *)
(*   "text"      text is a number: extract_title raises in                 *)
(*               generate_filename;                                        *)
(*   "location"  location is null: build_frontmatter raises;               *)
(*   "body"      the body holds a lone surrogate: open() creates or        *)
(*               truncates the file and f.write raises.                    *)
(***************************************************************************)
Bump(st, key) == [st EXCEPT ![key] = @ + 1]

\* lines 532-560: the decision taken against the matched file
Decide(entry, existing, fs, a) ==
    IF Has(existing)
    THEN IF a.update
         THEN LET existing_modified == extract_modified_date_from_file(fs[Val(existing)])
                  entry_modified == Get(entry.modifiedDate, <<>>)
              IN  IF existing_modified # None /\ existing_modified # <<>>
                     /\ StrLeq(entry_modified, existing_modified)
                  THEN "current"
                  ELSE "stale"
         ELSE "blocked"
    ELSE "new"

\* variant of UnlinkOld that ignores args.dry_run
UnlinkOld_in_preview(fs, existing, filename, a) ==
    IF Val(existing) # filename THEN Remove(fs, Val(existing)) ELSE fs

\* variant of UnlinkOld that never deletes
UnlinkOld_keep(fs, existing, filename, a) == fs

\* lines 545-547: delete the old file if the filename changed
UnlinkOld(fs, existing, filename, a) ==
    IF Val(existing) # filename /\ ~a.dry_run THEN Remove(fs, Val(existing)) ELSE fs

\* variant of WriteFile that keeps the old body in front of the new one
WriteFile_append(fs, filename, content) ==
    IF filename \in DOMAIN fs
    THEN (filename :> [content EXCEPT !.body = fs[filename].body \o @]) @@ fs
    ELSE (filename :> content) @@ fs

\* lines 574-575: open(filepath, 'w') and f.write(full_content)
WriteFile(fs, filename, content) == (filename :> content) @@ fs

\* lines 512-590: the body of the loop
ProcessEntry(entry, existing, fs, ph, st, a) ==
    LET st0 == Bump(st, "total")
        filename == FilenameOf[entry]
        decision == Decide(entry, existing, fs, a)
        fs1 == IF decision = "stale" THEN UnlinkOld(fs, existing, filename, a) ELSE fs
        st1 == IF decision = "stale" THEN Bump(st0, "updated")
               ELSE Bump(st0, "created")
    IN  IF entry.malformed = "text"
        THEN [files |-> fs, photos |-> ph, stats |-> Bump(st0, "errors"),
              decision |-> "none", error |-> TRUE, name |-> <<>>]
        ELSE IF entry.text = <<>>
        THEN [files |-> fs, photos |-> ph, stats |-> Bump(st0, "skipped"),
              decision |-> "empty", error |-> FALSE, name |-> <<>>]
        ELSE IF decision \in {"current", "blocked"}
        THEN [files |-> fs, photos |-> ph, stats |-> Bump(st0, "skipped"),
              decision |-> decision, error |-> FALSE, name |-> filename]
        ELSE IF entry.malformed = "location"
        THEN [files |-> fs1, photos |-> ph, stats |-> Bump(st1, "errors"),
              decision |-> decision, error |-> TRUE, name |-> filename]
        ELSE IF a.dry_run
        THEN [files |-> fs1, photos |-> ph, stats |-> st1,
              decision |-> decision, error |-> FALSE, name |-> filename]
        ELSE IF entry.malformed = "body"
        THEN [files |-> WriteFile(fs1, filename, EmptyContent), photos |-> ph,
              stats |-> Bump(st1, "errors"),
              decision |-> decision, error |-> TRUE, name |-> filename]
        ELSE [files |-> WriteFile(fs1, filename, ContentOf[entry]),
              photos |-> copy_photos(entry.photos, ph, a.dry_run),
              stats |-> st1,
              decision |-> decision, error |-> FALSE, name |-> filename]

\* variant of ExitCode that ignores the error counter
ExitCode_zero(st) == 0

\* line 608
ExitCode(st) == IF st.errors = 0 THEN 0 ELSE 1


(***************************************************************************)
(* State.                                                                  *)
(***************************************************************************)
VARIABLES
    files,       \* <output>/journal-entries/*.md: name -> content
    photos,      \* <output>/journal-entries/photos: name -> blob
    dirs,        \* journal-entries/ and photos/ exist
    log,         \* number of run records in conversion_log.txt
    pool,        \* the family the exports of this behaviour are drawn from
    args,        \* the arguments of the current run
    stats,       \* the counters of the current run
    pc,          \* "idle", "loop" (inside the for loop), "done" (returned);
                 \* "sanitize", "sanitized" around a call of sanitize_filename
    exit_code,   \* the value process_entries returned
    last,        \* history: what the last iteration decided
    seen,        \* history: the identifiers of the entries of this run
    ntext,       \* history: entries of this run with non-empty text
    clean,       \* history: the run started on an empty output directory
    shadow,      \* history: journal-entries had the failing entries been left out
    mode,        \* "plain", "recording" (the input is kept), "replaying"
    record,      \* history: the entries of a recorded run
    startFiles,  \* history: journal-entries when the current run began
    sanIn,       \* input of sanitize_filename
    sanOut       \* its result

vars == <<files, photos, dirs, log, pool, args, stats, pc, exit_code, last,
          seen, ntext, clean, shadow, mode, record, startFiles, sanIn, sanOut>>

tree == <<files, photos, dirs, log>>

ZeroStats == [total |-> 0, created |-> 0, updated |-> 0, skipped |-> 0, errors |-> 0]

NoLast == [entry |-> Absent, decision |-> "none", error |-> FALSE, name |-> <<>>,
           existing |-> Absent, existing_modified |-> Absent,
           shadow_decision |-> "none", matches |-> 0, before |-> ZeroStats]

Args == [input : {"ok", "missing", "invalid"}, update : BOOLEAN,
         dry_run : BOOLEAN, verbose : BOOLEAN]

NoPhotos == [n \in {} |-> "blob1"]

Init ==
    /\ files = NoFiles
    /\ photos = NoPhotos
    /\ dirs = FALSE
    /\ log = 0
    /\ pool \in Families
    /\ args = [input |-> "ok", update |-> FALSE, dry_run |-> FALSE, verbose |-> FALSE]
    /\ stats = ZeroStats
    /\ pc = "idle"
    /\ exit_code = 0
    /\ last = NoLast
    /\ seen = {}
    /\ ntext = 0
    /\ clean = TRUE
    /\ shadow = NoFiles
    /\ mode = "plain"
    /\ record = <<>>
    /\ startFiles = NoFiles
    /\ sanIn = <<>>
    /\ sanOut = <<>>

ResetHistory ==
    /\ last' = NoLast
    /\ seen' = {}
    /\ ntext' = 0
    /\ clean' = (DOMAIN files = {})
    /\ shadow' = files

\* lines 475-485: the input is missing or is not JSON
LoadFails(a) ==
    /\ pc \in {"idle", "done"}
    /\ a.input \in {"missing", "invalid"}
    /\ args' = a
    /\ stats' = ZeroStats
    /\ exit_code' = 1
    /\ pc' = "done"
    /\ mode' = "plain"
    /\ record' = <<>>
    /\ startFiles' = files
    /\ ResetHistory
    /\ UNCHANGED <<tree, pool, sanIn, sanOut>>

\* lines 487-490: the export holds no entries
LoadEmpty(a) ==
    /\ pc \in {"idle", "done"}
    /\ a.input = "ok"
    /\ args' = a
    /\ stats' = ZeroStats
    /\ exit_code' = 0
    /\ pc' = "done"
    /\ mode' = "plain"
    /\ record' = <<>>
    /\ startFiles' = files
    /\ ResetHistory
    /\ UNCHANGED <<tree, pool, sanIn, sanOut>>

\* lines 492-509: directories and counters.  The input of a run in update mode
\* is kept when the log has room for the run and its repetition.
StartBatch(a) ==
    /\ pc \in {"idle", "done"}
    /\ a.input = "ok"
    /\ ~a.dry_run => log < MaxLog
    /\ args' = a
    /\ dirs' = (dirs \/ ~a.dry_run)
    /\ stats' = ZeroStats
    /\ pc' = "loop"
    /\ mode' = IF a.update /\ ~a.dry_run /\ log + 2 <= MaxLog
               THEN "recording" ELSE "plain"
    /\ record' = <<>>
    /\ startFiles' = files
    /\ ResetHistory
    /\ UNCHANGED <<files, photos, log, pool, exit_code, sanIn, sanOut>>

\* the same export converted again with the same arguments
StartAgain ==
    /\ pc = "done"
    /\ mode = "recording"
    /\ stats' = ZeroStats
    /\ pc' = "loop"
    /\ mode' = "replaying"
    /\ startFiles' = files
    /\ ResetHistory
    /\ UNCHANGED <<tree, pool, args, exit_code, record, sanIn, sanOut>>

Matches(fs, entry) == find_existing_file(fs, TRUE, Prefix(Get(entry.uuid, <<>>)))

\* lines 511-590: one iteration of the loop; the export has at most MaxEntries
\* entries
ProcessOne(entry) ==
    /\ pc = "loop"
    /\ IF mode = "replaying"
       THEN stats.total < Len(record) /\ entry = record[stats.total + 1]
       ELSE stats.total < MaxEntries
    /\ \E existing \in ExistingChoices(files, dirs, entry),
          sexisting \in ExistingChoices(shadow, dirs, entry) :
          LET r == ProcessEntry(entry, existing, files, photos, stats, args)
              sr == IF shadow = files /\ sexisting = existing THEN r
                    ELSE ProcessEntry(entry, sexisting, shadow, photos, stats, args)
          IN  /\ files' = r.files
              /\ photos' = r.photos
              /\ stats' = r.stats
              /\ shadow' = IF entry.malformed # "none" THEN shadow ELSE sr.files
              /\ last' = [entry |-> Some(entry), decision |-> r.decision,
                          error |-> r.error, name |-> r.name,
                          existing |-> IF r.name = <<>> THEN Absent ELSE existing,
                          existing_modified |->
                              IF Has(existing) /\ r.name # <<>>
                              THEN files[Val(existing)].fm.modified
                              ELSE Absent,
                          shadow_decision |-> sr.decision,
                          matches |-> IF r.name = <<>> THEN 0
                                      ELSE Cardinality(Matches(files, entry)),
                          before |-> stats]
    /\ seen' = IF clean /\ ~args.dry_run THEN seen \cup {entry.uuid} ELSE seen
    /\ ntext' = IF clean /\ ~args.dry_run /\ entry.text # <<>>
                   /\ entry.malformed # "text"
                THEN ntext + 1 ELSE ntext
    /\ record' = IF mode = "recording" THEN Append(record, entry) ELSE record
    /\ UNCHANGED <<dirs, log, pool, args, pc, exit_code, clean, mode,
                   startFiles, sanIn, sanOut>>

\* lines 592-608: summary, log record, exit status
Finish ==
    /\ pc = "loop"
    /\ stats.total >= 1
    /\ mode = "replaying" => stats.total = Len(record)
    /\ log' = IF args.dry_run THEN log ELSE log + 1
    /\ exit_code' = ExitCode(stats)
    /\ pc' = "done"
    /\ UNCHANGED <<files, photos, dirs, pool, args, stats, last, seen, ntext,
                   clean, shadow, mode, record, startFiles, sanIn, sanOut>>

Next ==
    \/ \E a \in Args : LoadFails(a)
    \/ \E a \in Args : LoadEmpty(a)
    \/ \E a \in Args : StartBatch(a)
    \/ StartAgain
    \/ \E entry \in pool : ProcessOne(entry)
    \/ Finish

Spec == Init /\ [][Next]_vars

(***************************************************************************)
(* sanitize_filename on its own: the input is any text of three words of   *)
(* letters joined by separators, the one step applies the function.        *)
(***************************************************************************)
RECURSIVE Rep(_, _)
Rep(c, n) == IF n = 0 THEN <<>> ELSE <<c>> \o Rep(c, n - 1)

\* word lengths around the threshold of line 126 and the limit of line 98
FirstWordLengths == {0, 1, 19, 20, 21, 22}
SecondWordLengths == {0, 5, 27, 28, 29, 30}
ThirdWordLengths == {0, 1, 25}

Separators == {<<>>, <<" ">>, <<" ", "\t">>, <<":">>, <<"?", " ">>}

SanInputs ==
    {Rep("a", n1) \o s1 \o Rep("b", n2) \o s2 \o Rep("c", n3) :
        n1 \in FirstWordLengths, s1 \in Separators, n2 \in SecondWordLengths,
        s2 \in Separators, n3 \in ThirdWordLengths}

InitSan ==
    /\ files = NoFiles
    /\ photos = NoPhotos
    /\ dirs = FALSE
    /\ log = 0
    /\ pool = FamilyEdits
    /\ args = [input |-> "ok", update |-> FALSE, dry_run |-> FALSE, verbose |-> FALSE]
    /\ stats = ZeroStats
    /\ pc = "sanitize"
    /\ exit_code = 0
    /\ last = NoLast
    /\ seen = {}
    /\ ntext = 0
    /\ clean = TRUE
    /\ shadow = NoFiles
    /\ mode = "plain"
    /\ record = <<>>
    /\ startFiles = NoFiles
    /\ sanIn \in SanInputs
    /\ sanOut = <<>>

\* lines 98-130: one call of sanitize_filename with the default max_length
Sanitize ==
    /\ pc = "sanitize"
    /\ sanOut' = sanitize_filename(sanIn, MaxFilenameLength)
    /\ pc' = "sanitized"
    /\ UNCHANGED <<files, photos, dirs, log, pool, args, stats, exit_code, last,
                   seen, ntext, clean, shadow, mode, record, startFiles, sanIn>>

NextSan == Sanitize

SpecSan == InitSan /\ [][NextSan]_vars

(***************************************************************************)
(* Claims.                                                                 *)
(***************************************************************************)
Stepped == Has(last.entry)

\* the timestamp a file records, without the quotes of the YAML writer
Recorded(o) == IF Has(o) THEN Some(StripQuotes(Val(o))) ELSE Absent

\* C1: converting the same export twice in update mode (no preview) leaves
\* journal-entries/ after the second run exactly as it was after the first:
\* the same file names with the same contents.
C1_Idempotent ==
    (pc = "done" /\ mode = "replaying") => files = startFiles

C1_Witness ==
    /\ pc = "done"
    /\ mode = "replaying"
    /\ DOMAIN startFiles # {}
    /\ stats.updated >= 1
    /\ stats.total = MaxEntries

\* C2: a run without preview over an empty output directory that ends with no
\* error, on entries with pairwise distinct identifiers, leaves as many entry
\* files as there are entries with non-empty text.
C2_OneFilePerEntry ==
    (/\ pc = "done"
     /\ clean
     /\ ~args.dry_run
     /\ stats.total >= 1
     /\ stats.errors = 0
     /\ Cardinality(seen) = stats.total
     /\ Absent \notin seen)
    => Cardinality(DOMAIN files) = ntext

\* C3: in update mode, with a matched prior file, the entry is STALE (rewritten,
\* counted updated) exactly when the file records no modification time or the
\* entry's modification time is strictly later than the recorded one, and is
\* CURRENT (skipped, nothing written) otherwise; an entry whose modification
\* time is the instant recorded in its file is skipped.
C3_UpdateDecision ==
    (Stepped /\ args.update /\ Has(last.existing))
    => LET entry_modified == ContentOf[Val(last.entry)].fm.modified
           newer == /\ Has(entry_modified)
                    /\ ~StrLeq(Val(Recorded(entry_modified)),
                               Val(Recorded(last.existing_modified)))
       IN  /\ last.decision \in {"stale", "current"}
           /\ last.decision = "stale" <=> (~Has(last.existing_modified) \/ newer)
           /\ last.decision = "stale" =>
                  stats.updated = last.before.updated + 1
           /\ last.decision = "current" =>
                  /\ stats.skipped = last.before.skipped + 1
                  /\ stats.updated = last.before.updated

\* C4: the STALE transition outside preview counts the entry as updated exactly
\* once and removes the matched file when the new name differs from its name,
\* also when the iteration then fails; an iteration that succeeds leaves the new
\* content under the new name, and when exactly one file matched before, exactly
\* one file ending in "(<identifier-prefix>).md" afterwards: the new one.
C4_StaleEffect ==
    (Stepped /\ last.decision = "stale" /\ ~args.dry_run)
    => /\ stats.updated = last.before.updated + 1
       /\ stats.created = last.before.created
       /\ stats.skipped = last.before.skipped
       /\ Val(last.existing) # last.name => Val(last.existing) \notin DOMAIN files
       /\ ~last.error =>
            /\ last.name = FilenameOf[Val(last.entry)]
            /\ last.name \in DOMAIN files
            /\ files[last.name] = ContentOf[Val(last.entry)]
            /\ last.matches = 1 => Matches(files, Val(last.entry)) = {last.name}

C4_Witness ==
    /\ Stepped
    /\ last.decision = "stale"
    /\ ~args.dry_run
    /\ ~last.error
    /\ last.matches = 1
    /\ Val(last.existing) # last.name
    /\ last.name \in DOMAIN files

\* the files of fs written for the entry: they carry its identifier in the
\* frontmatter and in the name
OwnFiles(fs, entry) ==
    {n \in DOMAIN fs :
        /\ fs[n].fm.uuid = entry.uuid
        /\ EndsWith(n, <<"(">> \o Prefix(Get(entry.uuid, UNKNOWN))
                       \o <<")", ".", "m", "d">>)}

\* C5: with update mode off, an iteration over an entry (one that reaches the
\* reconciliation) whose file from an earlier run is still present changes no file of
\* journal-entries/ and counts the entry as skipped, whatever changed in its
\* body, title or modification time.
C5_Blocked ==
    [][(/\ pc = "loop"
        /\ stats'.total = stats.total + 1
        /\ ~args.update
        /\ Val(last'.entry).malformed # "text"
        /\ \E n \in OwnFiles(files, Val(last'.entry)) :
              n \in DOMAIN startFiles /\ startFiles[n] = files[n])
       => /\ files' = files
          /\ stats'.skipped = stats.skipped + 1
          /\ stats'.created = stats.created
          /\ stats'.updated = stats.updated]_vars

\* C6: a step of a preview run changes nothing under the output directory: no
\* directory is made, no entry file written or deleted, no photo copied, no
\* record appended to the log, whatever the update and verbose flags are.
C6_PreviewNoMutation ==
    [][args'.dry_run => UNCHANGED tree]_vars

C6_Witness ==
    /\ pc = "done"
    /\ args.dry_run
    /\ args.update
    /\ args.verbose
    /\ Stepped
    /\ last.decision = "stale"
    /\ Val(last.existing) # last.name
    /\ Val(last.entry).photos # <<>>
    /\ stats.updated >= 1

\* C7: an iteration that raises adds one to the error counter and the batch goes
\* on; every well-formed entry is processed without error and gets the decision
\* and the file it would get had the failing entries not been in the input
\* (shadow is the directory of that other run).
C7_FailureIsolation ==
    Stepped =>
      /\ last.error =>
           /\ stats.errors = last.before.errors + 1
           /\ stats.total = last.before.total + 1
           /\ pc \in {"loop", "done"}
      /\ Val(last.entry).malformed = "none" =>
           /\ ~last.error
           /\ stats.errors = last.before.errors
           /\ last.decision = last.shadow_decision
           /\ last.name # <<>> =>
                /\ last.name \in DOMAIN files <=> last.name \in DOMAIN shadow
                /\ last.name \in DOMAIN files => files[last.name] = shadow[last.name]

\* C8: process_entries returns 1 when the input is missing or is not JSON, and
\* then processes no entry and writes nothing; 0 when the export holds no
\* entries; otherwise 0 exactly when the error counter is zero, else 1.
C8_ExitStatus ==
    [][pc' = "done" =>
         /\ args'.input # "ok" =>
              exit_code' = 1 /\ stats'.total = 0 /\ UNCHANGED tree
         /\ (args'.input = "ok" /\ stats'.total = 0) => exit_code' = 0
         /\ (args'.input = "ok" /\ stats'.total > 0) =>
              /\ exit_code' \in {0, 1}
              /\ exit_code' = 0 <=> stats'.errors = 0]_vars

C8_Witness ==
    /\ pc = "done"
    /\ args.input = "ok"
    /\ stats.total = MaxEntries
    /\ stats.errors >= 1
    /\ stats.created >= 1
    /\ exit_code = 1

\* the extension the destination of a photo of the declared type must carry
ExpectedExt(type) ==
    CASE type = "JPG" -> "jpeg" [] type = "jpg" -> "jpeg" [] type = "jpeg" -> "jpeg"
      [] type = "gif" -> "gif" [] type = None -> "jpeg"

LastPhotos == Val(last.entry).photos

\* no file of the source directory is a candidate name of the photo
Sourceless(photo) ==
    \A f \in DOMAIN SourcePhotos : f.stem \notin {photo.md5, photo.identifier}

\* C9: a step never changes a file that exists in photos/; every file it adds is
\* named <identifier>.<normalized extension> after a photo of the entry, whatever
\* the source file is called; a photo whose source is found under no candidate
\* name is skipped and does not make the entry fail.
C9_NeverOverwrites ==
    [][/\ \A d \in DOMAIN photos : d \in DOMAIN photos' /\ photos'[d] = photos[d]
       /\ \A d \in DOMAIN photos' \ DOMAIN photos :
            \E i \in 1..Len(LastPhotos') :
               /\ d = [stem |-> LastPhotos'[i].identifier,
                       ext |-> ExpectedExt(LastPhotos'[i].type)]
               /\ ~Sourceless(LastPhotos'[i])
       /\ (/\ pc = "loop"
           /\ stats'.total = stats.total + 1
           /\ ~args.dry_run
           /\ last'.decision \in {"new", "stale"}
           /\ Val(last'.entry).malformed = "none"
           /\ \E i \in 1..Len(LastPhotos') : Sourceless(LastPhotos'[i]))
          => /\ ~last'.error
             /\ stats'.errors = stats.errors
             /\ files'[last'.name] = ContentOf[Val(last'.entry)]
      ]_vars

C9_Witness ==
    /\ Stepped
    /\ ~args.dry_run
    /\ ~last.error
    /\ last.decision \in {"new", "stale"}
    /\ LastPhotos = <<PhotoById, PhotoLost>>
    /\ [stem |-> <<"A", "B">>, ext |-> "jpeg"] \in DOMAIN photos
    /\ photos[[stem |-> <<"A", "B">>, ext |-> "jpeg"]] = "blob1"
    /\ [stem |-> <<"E", "F">>, ext |-> "jpeg"] \notin DOMAIN photos

\* the text left after the special characters are removed, the whitespace runs
\* collapsed and the ends trimmed
Cleaned(text) == Strip(CollapseSpaces(RemoveSpecial(text)))

\* 0-based index of the last space among the first MaxFilenameLength characters
LastSpace(text) == RFindSpace(SubSeq(Cleaned(text), 1, MaxFilenameLength))

\* C10: the result of sanitize_filename holds none of < > : " / \ | ? *, is at
\* most 50 characters long and is never empty (Untitled when nothing remains);
\* a cleaned text of more than 50 characters is cut at the last space of its
\* first 50 characters when the 0-based index of that space is greater than 20
\* (at least 21 characters are kept), otherwise after 50 characters.
C10_Sanitized ==
    pc = "sanitized" =>
      /\ \A i \in 1..Len(sanOut) : sanOut[i] \notin SpecialChars
      /\ Len(sanOut) <= MaxFilenameLength
      /\ sanOut # <<>>
      /\ Cleaned(sanIn) = <<>> => sanOut = Untitled
      /\ (Cleaned(sanIn) # <<>> /\ Len(Cleaned(sanIn)) <= MaxFilenameLength)
           => sanOut = Cleaned(sanIn)
      /\ Len(Cleaned(sanIn)) > MaxFilenameLength =>
           IF LastSpace(sanIn) > WordBreakMin
           THEN sanOut = RStrip(SubSeq(Cleaned(sanIn), 1, LastSpace(sanIn)))
           ELSE sanOut = RStrip(SubSeq(Cleaned(sanIn), 1, MaxFilenameLength))

C10_Witness ==
    /\ pc = "sanitized"
    /\ \E i \in 1..Len(sanIn) : sanIn[i] \in SpecialChars
    /\ Len(Cleaned(sanIn)) > MaxFilenameLength
    /\ LastSpace(sanIn) = WordBreakMin + 1
    /\ Len(sanOut) = WordBreakMin + 1

\* C10 as stated: the cut is at the last space whenever that space is no earlier
\* than character 20.
C10_CutFromTwenty ==
    (pc = "sanitized" /\ Len(Cleaned(sanIn)) > MaxFilenameLength) =>
      IF LastSpace(sanIn) >= WordBreakMin
      THEN sanOut = RStrip(SubSeq(Cleaned(sanIn), 1, LastSpace(sanIn)))
      ELSE sanOut = RStrip(SubSeq(Cleaned(sanIn), 1, MaxFilenameLength))

\* the parenthesized suffix the claimed key gives a file of the identifier
KeySuffix(uuid) == <<"(">> \o Prefix(uuid) \o <<")", ".", "m", "d">>

\* C11: the name derived for an entry with an identifier ends in the first 8
\* characters of the identifier (all of it when shorter) between parentheses,
\* whatever its title, body and timezone are; and an iteration over an entry
\* whose file from an earlier run is still present finds that file and does not
\* classify the entry as NEW.
C11_StableKey ==
    [][(/\ pc = "loop"
        /\ stats'.total = stats.total + 1
        /\ last'.name # <<>>)
       => /\ Has(Val(last'.entry).uuid) =>
               EndsWith(last'.name, KeySuffix(Val(Val(last'.entry).uuid)))
          /\ \A n \in OwnFiles(files, Val(last'.entry)) :
               (n \in DOMAIN startFiles /\ startFiles[n] = files[n])
               => /\ last'.decision # "new"
                  /\ last'.existing = Some(n)]_vars

\* C12: after every iteration and at the end of the batch the four outcome
\* counters add up to the total: each entry is counted as created, updated,
\* skipped or failed, and a failed one is not also counted created or updated.
C12_CounterPartition ==
    /\ stats.total = stats.created + stats.updated + stats.skipped + stats.errors
    /\ (Stepped /\ last.error) =>
           /\ stats.created = last.before.created
           /\ stats.updated = last.before.updated

====
